---- MODULE Spec2Model ----
(***************************************************************************)
(* A model of the tool-invocation gateway of the Origin Brain Trainer MCP  *)
(* server: the SSE channel registry (sseClients), the broadcaster          *)
(* (sendSSE / broadcastSSE), the tool executor (listFiles / deleteFile /   *)
(* executeTool), the JSON-RPC dispatcher (handleMcpMessage) and the REST   *)
(* routes that share the same functions.                                   *)
(*                                                                         *)
(* The server is a single Node.js event loop.  Every handler runs to       *)
(* completion before another callback starts: the only awaits in it are on *)
(* promises of async functions whose bodies are synchronous, so their      *)
(* continuations run as microtasks before any I/O or timer callback.  Each *)
(* handler is therefore one atomic action.                                 *)
(*                                                                         *)
(* JavaScript values are encoded as tagged records (see Undef, Null, Num,  *)
(* Str); a JavaScript string is a sequence of tokens, "" being << >>, and  *)
(* a file name is the sequence of its "/"-separated segments.              *)
(*                                                                         *)
(* The definitions follow the latest revision of server.js (the one with   *)
(* the single /mcp endpoint); the revision with /sse and /message has the  *)
(* same sendSSE, broadcastSSE, deleteFile, executeTool and dispatcher.     *)
(* The first revision has no dispatcher: it serves tool calls at POST      *)
(* /mcp/tools/call with a switch of its own and a deleteFile that does not *)
(* check its argument; the model carries that route (the _v1 definitions)  *)
(* next to the current ones, on the same registry and storage.             *)
(*                                                                         *)
(* sent, firstEvent, failed and last record what the server did, for the   *)
(* properties; no handler reads them.  sent, failed and last describe the  *)
(* latest step only.                                                       *)
(*                                                                         *)
(* Spec is the server; SpecLive adds the scheduling of its timers.         *)
(* SpecSizes applies formatFileSize to the sizes fs.statSync can report,   *)
(* as listFiles does for every entry.  SpecRace holds delete requests in   *)
(* flight (inflight): they arrive, and their handlers run later, in any    *)
(* order and with other events in between.                                 *)
(***************************************************************************)
EXTENDS Integers, Sequences, FiniteSets, TLC

\* ------------------------------------------------------------------------
\* Bounds of the model
\* ------------------------------------------------------------------------
\* number of transports (HTTP responses of GET /mcp) that may ever be opened
MaxChan == 2
\* Date.now() ranges over 1..MaxTime
MaxTime == 2

\* the file sizes formatted range below (MaxTiB + 1) * 1024^4 bytes
MaxTiB == 2

Chans == 1..MaxChan
Times == 1..MaxTime

\* ------------------------------------------------------------------------
\* JavaScript values
\* ------------------------------------------------------------------------
Undef == [t |-> "undefined"]
Null == [t |-> "null"]
NaN == [t |-> "NaN"]
Num(n) == [t |-> "number", n |-> n]
Str(s) == [t |-> "string", s |-> s]

\* JavaScript truthiness, as used by !x, x && y, x ? a : b and x || y
Truthy(v) ==
  CASE v.t = "undefined" -> FALSE
    [] v.t = "null" -> FALSE
    [] v.t = "NaN" -> FALSE
    [] v.t = "number" -> v.n # 0
    [] v.t = "string" -> v.s # << >>
    [] OTHER -> TRUE

\* the ?? operator: the right operand replaces only undefined and null
Coalesce(v, d) == IF v.t \in {"undefined", "null"} THEN d ELSE v

\* ------------------------------------------------------------------------
\* The file system: path.join, fs.existsSync, fs.unlinkSync, fs.readdirSync
\* ------------------------------------------------------------------------
appDir == << "app" >>
uploadsDir == << "app", "uploads" >>
serverJs == << "app", "server.js" >>
Dirs == { << >>, appDir, uploadsDir }

\* names a stored upload can have
UploadNames == { "a.txt" }

RECURSIVE Normalize(_, _)
Normalize(acc, segs) ==
  IF segs = << >> THEN acc
  ELSE LET s == Head(segs) IN
       IF s = ".." THEN
         Normalize(IF acc = << >> THEN acc ELSE SubSeq(acc, 1, Len(acc) - 1),
                   Tail(segs))
       ELSE IF s = "." \/ s = "" THEN Normalize(acc, Tail(segs))
       ELSE Normalize(Append(acc, s), Tail(segs))

PathJoin(dir, name) == Normalize(<< >>, dir \o name)

ExistsSync(fsys, p) == p \in fsys \/ p \in Dirs

ReaddirSync(fsys, dir) ==
  { p[Len(p)] : p \in { q \in fsys : Len(q) = Len(dir) + 1
                                     /\ SubSeq(q, 1, Len(dir)) = dir } }

\* ------------------------------------------------------------------------
\* formatFileSize
\* ------------------------------------------------------------------------
\* A byte count (stats.size, a Number holding a non-negative integer) is
\* written in base K = 1024, least significant digit first:
\* bytes = d[1] + d[2] * K + d[3] * K^2 + d[4] * K^3 + d[5] * K^4.
\* Below 2^53 the Number holds the integer exactly, bytes / Math.pow(k, i)
\* is a division by a power of two, and the quotient times 100 is computed
\* without a rounding that crosses a half for the sizes of SizeValues, so
\* the operators below compute on the digits what the code computes on
\* doubles.
\* const k
K == 1024
sizes == << "Bytes", "KB", "MB", "GB" >>

Digits == { 0, 1, 2, 512, 1000, 1023 }
SizeValues ==
  { << d1, d2, d3, d4, d5 >> :
      d1 \in Digits, d2 \in Digits, d3 \in Digits, d4 \in Digits,
      d5 \in 0..MaxTiB }

\* Math.floor(Math.log(bytes) / Math.log(k)) for bytes > 0: the place of the
\* highest digit that is not 0
floorLogK(bytes) ==
  (CHOOSE j \in 1..Len(bytes) :
     /\ bytes[j] # 0
     /\ \A m \in (j + 1)..Len(bytes) : bytes[m] = 0) - 1

\* Math.floor(200 * (the digits below place j) / K^j)
RECURSIVE lowerPart(_, _)
lowerPart(bytes, j) ==
  IF j = 0 THEN 0 ELSE (200 * bytes[j] + lowerPart(bytes, j - 1)) \div K

\* Math.round((bytes / Math.pow(k, i)) * 100): halves are rounded up
roundedHundredths(bytes, i) ==
  (200 * bytes[i + 1] + lowerPart(bytes, i) + 1) \div 2

\* the conversion of the Number h / 100 to a string by the + operator: the
\* integer part, then the decimals that are not trailing zeros
numberToString(h) ==
  ToString(h \div 100)
    \o (IF h % 100 = 0 THEN ""
        ELSE IF h % 10 = 0 THEN "." \o ToString((h % 100) \div 10)
        ELSE "." \o ToString((h % 100) \div 10) \o ToString(h % 10))

\* sizes[i] joined to a string: an index past the end of the array reads
\* undefined, which + writes as "undefined"
unitToString(i) == IF i + 1 \in DOMAIN sizes THEN sizes[i + 1] ELSE "undefined"

formatFileSize(bytes) ==
  IF \A j \in DOMAIN bytes : bytes[j] = 0 THEN "0 Bytes"
  ELSE LET i == floorLogK(bytes) IN
       numberToString(roundedHundredths(bytes, i)) \o " " \o unitToString(i)

\* ------------------------------------------------------------------------
\* State
\* ------------------------------------------------------------------------
VARIABLES
  running,     \* the process has not exited
  now,         \* the value Date.now() returns
  files,       \* the regular files that exist, as paths
  sseClients,  \* the registry: clientId -> [res, heartbeat]
  resState,    \* per transport: "unopened", "open", "broken", "closed", "ended"
  resId,       \* per transport: the clientId captured by its handlers
  timer,       \* per transport: its setInterval timer is live
  sent,        \* per transport: the events res.write accepted in the last step
  firstEvent,  \* per transport: the first event res.write ever accepted
  failed,      \* the transports on which res.write threw in the last step
  last,        \* the request handled in the last step and its response
  inflight     \* the delete requests received whose handler has not run yet,
               \* and the responses of those whose handler has run

vars == << running, now, files, sseClients, resState, resId, timer, sent,
           firstEvent, failed, last, inflight >>

NoRequest == [op |-> "none"]

\* the two requests of a race, and the state of one that has not arrived
Racers == { 1, 2 }
Idle == [phase |-> "idle"]

\* a transport whose writes throw
WriteThrows(rs, res) == rs[res] = "broken"

\* ------------------------------------------------------------------------
\* sendSSE, broadcastSSE
\* ------------------------------------------------------------------------
\* The part of the state the SSE functions read and write, at the start of
\* a step: nothing has been written in this step yet.
NoEvent == [event |-> "none"]
World ==
  [sseClients |-> sseClients, timer |-> timer,
   sent |-> [c \in Chans |-> << >>], firstEvent |-> firstEvent, failed |-> {}]

Event(name, data) == [event |-> name, data |-> data]

\* res.write accepted the event: it is recorded for the transport
Written(w, res, e) ==
  [w EXCEPT !.sent[res] = Append(@, e),
            !.firstEvent[res] = IF @ = NoEvent THEN e ELSE @]

\* sendSSE without its try block: the exception of res.write reaches the caller
sendSSE_Rethrows(w, rs, res, event, data) ==
  IF WriteThrows(rs, res)
  THEN [w |-> [w EXCEPT !.failed = @ \cup {res}], threw |-> TRUE]
  ELSE [w |-> Written(w, res, Event(event, data)), threw |-> FALSE]

\* sendSSE: both res.write calls sit in a try block whose catch only logs,
\* so the call returns normally whether or not the write threw.
sendSSE(w, rs, res, event, data) ==
  IF WriteThrows(rs, res)
  THEN [w |-> [w EXCEPT !.failed = @ \cup {res}], threw |-> FALSE]
  ELSE [w |-> Written(w, res, Event(event, data)), threw |-> FALSE]

\* The registry after sseClients.set(clientId, {res, heartbeat}) and after
\* sseClients.delete(clientId)
MapSet(m, k, v) == [x \in DOMAIN m \cup {k} |-> IF x = k THEN v ELSE m[x]]
MapDelete(m, k) == [x \in DOMAIN m \ {k} |-> m[x]]

\* a clean-up that drops the entry added last instead of its own
closeChannel_Pop(w, clientId, heartbeat) ==
  [w EXCEPT !.timer[heartbeat] = FALSE,
            !.sseClients =
              IF DOMAIN @ = {} THEN @
              ELSE MapDelete(@, CHOOSE k \in DOMAIN @ : \A j \in DOMAIN @ : j <= k)]

\* The clean-up of a channel: clearInterval(heartbeat) and
\* sseClients.delete(clientId), as the close handler of the channel and
\* the catch of broadcastSSE do it.
closeChannel(w, clientId, heartbeat) ==
  [w EXCEPT !.timer[heartbeat] = FALSE,
            !.sseClients = MapDelete(@, clientId)]

\* broadcastSSE: sseClients.forEach over the entries; the catch around
\* sendSSE clears the entry's timer and deletes the entry.
RECURSIVE broadcastOver(_, _, _, _, _)
broadcastOver(w, rs, ids, event, data) ==
  IF ids = {} THEN w
  ELSE LET clientId == CHOOSE i \in ids : \A j \in ids : i <= j
           client == w.sseClients[clientId]
           r == sendSSE(w, rs, client.res, event, data)
           w2 == IF r.threw THEN closeChannel(r.w, clientId, client.heartbeat)
                 ELSE r.w
       IN broadcastOver(w2, rs, ids \ {clientId}, event, data)

broadcastSSE(w, rs, event, data) ==
  broadcastOver(w, rs, DOMAIN w.sseClients, event, data)

SetWorld(w) ==
  /\ sseClients' = w.sseClients
  /\ timer' = w.timer
  /\ sent' = w.sent
  /\ firstEvent' = w.firstEvent
  /\ failed' = w.failed

\* ------------------------------------------------------------------------
\* The tool executor: listFiles, deleteFile, executeTool
\* ------------------------------------------------------------------------
\* What a function call leaves behind: it either returned value or threw an
\* Error with message, and the files and the SSE world are as it left them.
Returned(value, fsys, w) ==
  [threw |-> FALSE, value |-> value, message |-> Undef, files |-> fsys, w |-> w]
Threw(message, fsys, w) ==
  [threw |-> TRUE, value |-> Undef, message |-> message, files |-> fsys, w |-> w]

listFiles(fsys, w) ==
  LET names == ReaddirSync(fsys, uploadsDir) IN
  Returned([success |-> TRUE, count |-> Cardinality(names), files |-> names,
            timestamp |-> now], fsys, w)

deleteFile(fsys, w, rs, filename) ==
  IF ~Truthy(filename) THEN Threw(Str(<< "filename is required" >>), fsys, w)
  ELSE LET filepath == PathJoin(uploadsDir, filename.s) IN
       IF ~ExistsSync(fsys, filepath)
       THEN Threw(Str(<< "File not found" >>), fsys, w)
       ELSE IF filepath \in Dirs
       THEN Threw(Str(<< "EISDIR: illegal operation on a directory, unlink" >>),
                  fsys, w)
       ELSE Returned([success |-> TRUE,
                      message |-> Str(<< "File " >> \o filename.s
                                      \o << " deleted successfully" >>),
                      timestamp |-> now],
                     fsys \ {filepath},
                     broadcastSSE(w, rs, "file_deleted",
                                  [filename |-> filename, timestamp |-> now]))

\* args?.field
ArgField(args, field) == IF args.t = "object" THEN args[field] ELSE Undef

\* a switch whose default case lists the files instead of throwing
executeTool_DefaultLists(fsys, w, rs, name, args) ==
  CASE name = Str(<< "delete_file" >>) ->
         deleteFile(fsys, w, rs, ArgField(args, "filename"))
    [] name = Str(<< "upload_file" >>) ->
         Returned([success |-> TRUE,
                   message |-> Str(<< "File upload endpoint ready." >>),
                   instructions |->
                     IF Truthy(ArgField(args, "instructions"))
                     THEN ArgField(args, "instructions")
                     ELSE Str(<< "No instructions provided" >>),
                   uploadEndpoint |-> Str(<< "/upload" >>)], fsys, w)
    [] OTHER -> listFiles(fsys, w)

executeTool(fsys, w, rs, name, args) ==
  CASE name = Str(<< "list_files" >>) -> listFiles(fsys, w)
    [] name = Str(<< "delete_file" >>) ->
         deleteFile(fsys, w, rs, ArgField(args, "filename"))
    [] name = Str(<< "upload_file" >>) ->
         Returned([success |-> TRUE,
                   message |-> Str(<< "File upload endpoint ready." >>),
                   instructions |->
                     IF Truthy(ArgField(args, "instructions"))
                     THEN ArgField(args, "instructions")
                     ELSE Str(<< "No instructions provided" >>),
                   uploadEndpoint |-> Str(<< "/upload" >>)], fsys, w)
    [] OTHER -> Threw(Str(<< "Unknown tool: " >>
                          \o (IF name.t = "string" THEN name.s
                              ELSE << name.t >>)), fsys, w)

\* ------------------------------------------------------------------------
\* POST /mcp, POST /message: handleMcpMessage
\* ------------------------------------------------------------------------
MCP_SERVER_INFO == [name |-> "origin-brain-trainer", version |-> "1.0.0"]
TOOLS == << "upload_file", "list_files", "delete_file" >>

\* the decimal numeral of n, a one-token string
Decimal(n) == << "0", "1", "2", "3", "4", "5", "6", "7", "8", "9" >>[n + 1]

\* Number(s) of a query string s
ToNumber(s) ==
  IF s.s = << >> THEN Num(0)
  ELSE IF \E n \in 0..9 : s.s = << Decimal(n) >>
  THEN Num(CHOOSE n \in 0..9 : s.s = << Decimal(n) >>)
  ELSE NaN

Obj(fields) == [t |-> "object"] @@ fields

\* rpc?.field, also the plain rpc.field once rpc is known to be an object
Field(obj, field) == IF obj.t = "object" THEN obj[field] ELSE Undef

RpcBody(id, result, error) ==
  [jsonrpc |-> Str(<< "2.0" >>), id |-> id, result |-> result, error |-> error]
RpcError(code, message) == [code |-> code, message |-> message]

\* the validation without the comparison of the protocol tag
ValidEnvelope_AnyVersion(rpc) ==
  ~(~Truthy(rpc) \/ ~Truthy(Field(rpc, "method")))

\* the validation of the envelope
ValidEnvelope(rpc) ==
  ~(~Truthy(rpc) \/ Field(rpc, "jsonrpc") # Str(<< "2.0" >>)
      \/ ~Truthy(Field(rpc, "method")))

\* the object literals the handler passes to res.json
InvalidRequestBody(rpc) ==
  RpcBody(Coalesce(Field(rpc, "id"), Null), Undef,
          RpcError(-32600, Str(<< "Invalid Request" >>)))
InitializeBody(rpc) ==
  RpcBody(rpc.id, [protocolVersion |-> "2024-11-05",
                   serverInfo |-> MCP_SERVER_INFO], Undef)
\* a catalog that hides delete_file from a request without an id
ToolsListBody_ByCaller(rpc) ==
  RpcBody(rpc.id, [tools |-> IF rpc.id = Undef THEN SubSeq(TOOLS, 1, 2)
                             ELSE TOOLS], Undef)
ToolsListBody(rpc) == RpcBody(rpc.id, [tools |-> TOOLS], Undef)
MissingNameBody(rpc) ==
  RpcBody(rpc.id, Undef, RpcError(-32602, Str(<< "Missing tool name" >>)))
ToolResultBody(rpc, resultObj) ==
  RpcBody(rpc.id, [content |-> resultObj], Undef)
MethodNotFoundBody(rpc) ==
  RpcBody(Coalesce(rpc.id, Null), Undef,
          RpcError(-32601, Str(<< "Method not found: " >> \o rpc.method.s)))
\* the catch answering with a null result next to the error
ServerErrorBody_WithResult(rpc, message) ==
  RpcBody(Coalesce(rpc.id, Null), Null,
          RpcError(-32000, IF Truthy(message) THEN message
                           ELSE Str(<< "Server error" >>)))
\* the catch answering with rpc.id as it is, without the ?? null
ServerErrorBody_RawId(rpc, message) ==
  RpcBody(rpc.id, Undef,
          RpcError(-32000, IF Truthy(message) THEN message
                           ELSE Str(<< "Server error" >>)))
ServerErrorBody(rpc, message) ==
  RpcBody(Coalesce(rpc.id, Null), Undef,
          RpcError(-32000, IF Truthy(message) THEN message
                           ELSE Str(<< "Server error" >>)))

\* a dispatcher that hands every tools/call to the executor
NoToolName_Never(name) == FALSE

\* if (!name): the params of the tools/call carry no tool name
NoToolName(name) == ~Truthy(name)

\* if (clientId && sseClients.has(clientId)) sendSSE(..., "tool_result", ...)
streamToolResult(w, rs, clientId, name, resultObj) ==
  IF Truthy(clientId) /\ clientId.n \in DOMAIN w.sseClients
  THEN sendSSE(w, rs, w.sseClients[clientId.n].res, "tool_result",
               [tool |-> name, result |-> resultObj, timestamp |-> now])
  ELSE [w |-> w, threw |-> FALSE]

\* What handleMcpMessage does with a request: the HTTP response it sends
\* (status, body object literal) and the files and SSE world it leaves.
handleMcpMessage(fsys, w, rs, query, rpc) ==
  LET clientId == IF Truthy(query) THEN ToNumber(query) ELSE Null
      noop(status, body) ==
        [status |-> status, body |-> body, files |-> fsys, w |-> w]
  IN
  IF ~ValidEnvelope(rpc) THEN noop(400, InvalidRequestBody(rpc))
  ELSE IF rpc.method = Str(<< "initialize" >>) THEN noop(200, InitializeBody(rpc))
  ELSE IF rpc.method = Str(<< "tools/list" >>) THEN noop(200, ToolsListBody(rpc))
  ELSE IF rpc.method = Str(<< "tools/call" >>)
  THEN LET params == IF Truthy(rpc.params) THEN rpc.params
                     ELSE Obj([name |-> Undef, arguments |-> Undef])
           name == params.name
           args == params.arguments
       IN IF NoToolName(name) THEN noop(200, MissingNameBody(rpc))
          ELSE LET x == executeTool(fsys, w, rs, name, args) IN
               IF x.threw
               THEN [status |-> 500, body |-> ServerErrorBody(rpc, x.message),
                     files |-> x.files, w |-> x.w]
               ELSE LET s == streamToolResult(x.w, rs, clientId, name, x.value)
                    IN IF s.threw
                       THEN [status |-> 500,
                             body |-> ServerErrorBody(rpc, Str(<< "write failed" >>)),
                             files |-> x.files, w |-> s.w]
                       ELSE [status |-> 200, body |-> ToolResultBody(rpc, x.value),
                             files |-> x.files, w |-> s.w]
  ELSE noop(200, MethodNotFoundBody(rpc))

\* a route that looks the name up in the listing before it deletes
handleDelete_ListedOnly(fsys, w, rs, filename) ==
  LET x == IF \E n \in ReaddirSync(fsys, uploadsDir) : filename.s = << n >>
           THEN deleteFile(fsys, w, rs, filename)
           ELSE Threw(Str(<< "File not found" >>), fsys, w)
  IN IF x.threw
     THEN [status |-> 404, body |-> [success |-> FALSE, error |-> x.message],
           files |-> x.files, w |-> x.w]
     ELSE [status |-> 200, body |-> x.value, files |-> x.files, w |-> x.w]

\* DELETE /files/:filename
handleDelete(fsys, w, rs, filename) ==
  LET x == deleteFile(fsys, w, rs, filename) IN
  IF x.threw
  THEN [status |-> 404, body |-> [success |-> FALSE, error |-> x.message],
        files |-> x.files, w |-> x.w]
  ELSE [status |-> 200, body |-> x.value, files |-> x.files, w |-> x.w]

\* ------------------------------------------------------------------------
\* POST /mcp/tools/call of the first revision of the server, which has no
\* executeTool: the route switches on the tool name itself and reads
\* args.filename and args.instructions without the ?. guard, and deleteFile
\* has no check of its argument before path.join.
\* ------------------------------------------------------------------------
\* path.join throws a TypeError on an argument that is not a string;
\* fs.unlinkSync throws on a directory.
deleteFile_v1(fsys, w, rs, filename) ==
  IF filename.t # "string"
  THEN Threw(Str(<< "The \"path\" argument must be of type string" >>), fsys, w)
  ELSE LET filepath == PathJoin(uploadsDir, filename.s) IN
       IF ExistsSync(fsys, filepath)
       THEN IF filepath \in Dirs
            THEN Threw(Str(<< "EISDIR: illegal operation on a directory, unlink" >>),
                       fsys, w)
            ELSE Returned([success |-> TRUE,
                           message |-> Str(<< "File " >> \o filename.s
                                           \o << " deleted successfully" >>),
                           timestamp |-> now],
                          fsys \ {filepath},
                          broadcastSSE(w, rs, "file_deleted",
                                       [filename |-> filename, timestamp |-> now]))
       ELSE Threw(Str(<< "File not found" >>), fsys, w)

\* the switch of the route; args.x on an args that is undefined or null
\* throws a TypeError
toolsCallSwitch_v1(fsys, w, rs, name, args) ==
  LET noArgs == Threw(Str(<< "Cannot read properties of undefined" >>), fsys, w)
  IN
  CASE name = Str(<< "list_files" >>) -> listFiles(fsys, w)
    [] name = Str(<< "delete_file" >>) ->
         IF args.t # "object" THEN noArgs
         ELSE deleteFile_v1(fsys, w, rs, args.filename)
    [] name = Str(<< "upload_file" >>) ->
         IF args.t # "object" THEN noArgs
         ELSE Returned([success |-> TRUE,
                        message |-> Str(<< "File upload endpoint ready." >>),
                        instructions |->
                          IF Truthy(args.instructions) THEN args.instructions
                          ELSE Str(<< "No instructions provided" >>),
                        uploadEndpoint |-> Str(<< "/upload" >>)], fsys, w)
    [] OTHER -> Threw(Str(<< "Unknown tool: " >>
                          \o (IF name.t = "string" THEN name.s
                              ELSE << name.t >>)), fsys, w)

\* the route: the result wrapped as content, or the catch answering 500
mcpToolsCall_v1(fsys, w, rs, body) ==
  LET x == toolsCallSwitch_v1(fsys, w, rs, body.name, body.arguments) IN
  IF x.threw
  THEN [status |-> 500,
        body |-> [error |-> [code |-> "TOOL_ERROR", message |-> x.message]],
        files |-> x.files, w |-> x.w]
  ELSE [status |-> 200, body |-> [content |-> x.value],
        files |-> x.files, w |-> x.w]

\* GET /: the answer reports the size of the registry
handleRoot(w) ==
  [status |-> 200,
   body |-> [status |-> "MCP Server Running",
             version |-> MCP_SERVER_INFO.version,
             activeConnections |-> Cardinality(DOMAIN w.sseClients),
             timestamp |-> now]]

\* POST /upload, after multer has stored the files: JSON.parse of the
\* metadata field throws on text that is not JSON, and the catch answers 500.
handleUpload(fsys, w, rs, stored, instructions, metadata) ==
  LET processedFiles ==
        { [originalName |-> "report.pdf", savedAs |-> n, size |-> 1000,
           mimetype |-> "application/pdf", path |-> Append(uploadsDir, n)] :
            n \in stored }
  IN IF metadata = "invalid"
     THEN [status |-> 500,
           body |-> [success |-> FALSE,
                     error |-> Str(<< "Unexpected token" >>)],
           files |-> fsys, w |-> w]
     ELSE [status |-> 200,
           body |-> [success |-> TRUE, fileCount |-> Cardinality(stored),
                     files |-> processedFiles, instructions |-> instructions,
                     metadata |-> metadata, timestamp |-> now],
           files |-> fsys,
           w |-> broadcastSSE(w, rs, "upload",
                              [fileCount |-> Cardinality(stored),
                               files |-> processedFiles,
                               instructions |-> instructions,
                               timestamp |-> now])]

\* res.json(body): JSON.stringify leaves out the properties whose value is
\* undefined; these are the properties the client receives.
JsonKeys(body) == { k \in DOMAIN body : body[k] # Undef }

\* ------------------------------------------------------------------------
\* Initial state: no channel is open; the uploads directory holds any of
\* the files a previous run left there.
\* ------------------------------------------------------------------------
Init ==
  /\ running = TRUE
  /\ now = 1
  /\ \E up \in SUBSET UploadNames :
       files = { serverJs } \cup { Append(uploadsDir, n) : n \in up }
  /\ sseClients = << >>
  /\ resState = [c \in Chans |-> "unopened"]
  /\ resId = [c \in Chans |-> 0]
  /\ timer = [c \in Chans |-> FALSE]
  /\ sent = [c \in Chans |-> << >>]
  /\ firstEvent = [c \in Chans |-> NoEvent]
  /\ failed = {}
  /\ last = NoRequest
  /\ inflight = [r \in Racers |-> Idle]

\* ------------------------------------------------------------------------
\* The clock
\* ------------------------------------------------------------------------
ClockTick ==
  /\ running
  /\ last = NoRequest
  /\ now < MaxTime
  /\ now' = now + 1
  /\ last' = NoRequest
  /\ sent' = World.sent
  /\ failed' = {}
  /\ UNCHANGED << inflight, running, files, sseClients, resState, resId, timer,
                  firstEvent >>

\* ------------------------------------------------------------------------
\* GET /mcp, GET /sse: handleMcpSse
\* ------------------------------------------------------------------------
\* a handler that registers the channel without greeting it
handleMcpSse_NoGreeting(res) ==
  /\ running
  /\ last = NoRequest
  /\ resState[res] = "unopened"
  /\ \A c \in Chans : c < res => resState[c] # "unopened"
  /\ LET clientId == now
         w == [World EXCEPT !.timer[res] = TRUE,
                            !.sseClients = MapSet(@, clientId,
                                                  [res |-> res, heartbeat |-> res])]
     IN /\ resState' = [resState EXCEPT ![res] = "open"]
        /\ resId' = [resId EXCEPT ![res] = clientId]
        /\ SetWorld(w)
  /\ last' = NoRequest
  /\ UNCHANGED << inflight, running, now, files >>

handleMcpSse(res) ==
  /\ running
  /\ last = NoRequest
  /\ resState[res] = "unopened"
  /\ \A c \in Chans : c < res => resState[c] # "unopened"
  /\ LET clientId == now
         rs == [resState EXCEPT ![res] = "open"]
         r == sendSSE(World, rs, res, "connected", [clientId |-> clientId])
         w == [r.w EXCEPT !.timer[res] = TRUE,
                          !.sseClients = MapSet(@, clientId,
                                                [res |-> res, heartbeat |-> res])]
     IN /\ resState' = rs
        /\ resId' = [resId EXCEPT ![res] = clientId]
        /\ SetWorld(w)
  /\ last' = NoRequest
  /\ UNCHANGED << inflight, running, now, files >>

\* The setInterval callback of the channel opened on res
HeartbeatTick(res) ==
  /\ running
  /\ timer[res]
  /\ SetWorld(sendSSE(World, resState, res, "heartbeat", [status |-> "alive"]).w)
  /\ last' = NoRequest
  /\ UNCHANGED << inflight, running, now, files, resState, resId >>

\* a close handler that forgets clearInterval
onClose_KeepsTimer(res) ==
  /\ running
  /\ last = NoRequest
  /\ resState[res] \in {"open", "broken"}
  /\ resState' = [resState EXCEPT ![res] = "closed"]
  /\ sseClients' = MapDelete(sseClients, resId[res])
  /\ sent' = World.sent
  /\ failed' = {}
  /\ last' = NoRequest
  /\ UNCHANGED << inflight, running, now, files, resId, firstEvent, timer >>

\* a close handler that forgets sseClients.delete
onClose_KeepsEntry(res) ==
  /\ running
  /\ last = NoRequest
  /\ resState[res] \in {"open", "broken"}
  /\ resState' = [resState EXCEPT ![res] = "closed"]
  /\ timer' = [timer EXCEPT ![res] = FALSE]
  /\ sent' = World.sent
  /\ failed' = {}
  /\ last' = NoRequest
  /\ UNCHANGED << inflight, running, now, files, resId, firstEvent, sseClients >>

\* req.on("close") of the channel opened on res: the closure clears its own
\* timer and deletes the registry key it was given.
onClose(res) ==
  /\ running
  /\ last = NoRequest
  /\ resState[res] \in {"open", "broken"}
  /\ resState' = [resState EXCEPT ![res] = "closed"]
  /\ SetWorld(closeChannel(World, resId[res], res))
  /\ last' = NoRequest
  /\ UNCHANGED << inflight, running, now, files, resId >>

\* The transport of an open channel starts to fail its writes, and goes on
\* failing them until it closes.  A transport is writable when it is opened.
TransportBreak(res) ==
  /\ running
  /\ last = NoRequest
  /\ resState[res] = "open"
  /\ resState' = [resState EXCEPT ![res] = "broken"]
  /\ last' = NoRequest
  /\ sent' = World.sent
  /\ failed' = {}
  /\ UNCHANGED << inflight, running, now, files, sseClients, resId, timer, firstEvent >>

\* process.on("SIGTERM")
onSigterm ==
  /\ running
  /\ last = NoRequest
  /\ LET regs == { sseClients[k] : k \in DOMAIN sseClients } IN
       /\ timer' = [c \in Chans |->
                      IF \E e \in regs : e.heartbeat = c THEN FALSE ELSE timer[c]]
       /\ resState' = [c \in Chans |->
                         IF \E e \in regs : e.res = c THEN "ended" ELSE resState[c]]
  /\ running' = FALSE
  /\ last' = NoRequest
  /\ sent' = World.sent
  /\ failed' = {}
  /\ UNCHANGED << inflight, now, files, sseClients, resId, firstEvent >>

\* The response of the last request has gone out.  last and sent record what
\* the latest step did and are read by no handler, so a callback that runs
\* right after a request is this step followed by the callback.
Settle ==
  /\ last # NoRequest
  /\ last' = NoRequest
  /\ sent' = World.sent
  /\ failed' = {}
  /\ UNCHANGED << inflight, running, now, files, sseClients, resState, resId, timer,
                  firstEvent >>

\* ------------------------------------------------------------------------
\* Requests
\* ------------------------------------------------------------------------
\* values of the clientId query parameter
Queries ==
  { Undef, Str(<< >>), Str(<< "abc" >>), Str(<< "0" >>) }
    \cup { Str(<< Decimal(n) >>) : n \in Times }

RpcIds == { Undef, Null, Num(7) }

FileArgs ==
  { Undef, Str(<< >>), Str(<< ".." >>), Str(<< "..", "server.js" >>) }
    \cup { Str(<< n >>) : n \in UploadNames }

ToolArgs ==
  { Undef }
    \cup { Obj([filename |-> f, instructions |-> Undef]) : f \in FileArgs }
    \cup { Obj([filename |-> Undef, instructions |-> Str(<< "resize" >>)]) }

Rpc(jsonrpc, id, method, params) ==
  Obj([jsonrpc |-> jsonrpc, id |-> id, method |-> method, params |-> params])
Call(name, arguments) == Obj([name |-> name, arguments |-> arguments])
FileArg(f) == Obj([filename |-> f, instructions |-> Undef])
V2 == Str(<< "2.0" >>)
ToolsCall == Str(<< "tools/call" >>)

\* The requests POST /mcp is given: pairs of the clientId query parameter
\* and the body.  The malformed envelopes, the methods without parameters
\* with every id, and tools/call with every tool and argument shape; the
\* query parameter varies where a tool call can succeed.
McpRequests ==
  { << Undef, Undef >>,
    << Undef, Rpc(Undef, Null, Str(<< "tools/list" >>), Undef) >>,
    << Undef, Rpc(V2, Undef, Undef, Undef) >>,
    << Undef, Rpc(V2, Num(7), Str(<< >>), Undef) >>,
    << Str(<< Decimal(1) >>),
       Rpc(Str(<< "1.0" >>), Num(7), ToolsCall,
           Call(Str(<< "delete_file" >>), FileArg(Str(<< "a.txt" >>)))) >> }
    \cup { << Undef, Rpc(Str(<< "1.0" >>), i, Str(<< "initialize" >>), Undef) >> :
             i \in { Undef, Num(7) } }
    \cup { << Undef, Rpc(V2, i, Str(<< "initialize" >>), Undef) >> : i \in RpcIds }
    \cup { << Undef, Rpc(V2, i, m, Undef) >> :
             i \in { Undef, Num(7) },
             m \in { Str(<< "tools/list" >>), Str(<< "ping" >>) } }
    \cup { << Undef, Rpc(V2, Num(7), ToolsCall, Undef) >>,
           << Undef, Rpc(V2, Undef, ToolsCall,
                         Call(Undef, FileArg(Str(<< "a.txt" >>)))) >>,
           << Undef, Rpc(V2, Undef, ToolsCall,
                         Call(Str(<< "list_files" >>), Undef)) >> }
    \cup { << q, Rpc(V2, Num(7), ToolsCall, Call(Str(<< "list_files" >>), Undef)) >> :
             q \in Queries }
    \cup { << Undef, Rpc(V2, Num(7), ToolsCall, Call(Str(<< "delete_file" >>), a)) >> :
             a \in ToolArgs }
    \cup { << q, Rpc(V2, Num(7), ToolsCall,
                     Call(Str(<< "delete_file" >>), FileArg(Str(<< "a.txt" >>)))) >> :
             q \in { Str(<< Decimal(n) >>) : n \in Times } }
    \cup { << Undef, Rpc(V2, Num(7), ToolsCall, Call(Str(<< "upload_file" >>), a)) >> :
             a \in { Undef,
                     Obj([filename |-> Undef, instructions |-> Str(<< "resize" >>)]) } }
    \cup { << q, Rpc(V2, i, ToolsCall, Call(Str(<< "format_disk" >>), Undef)) >> :
             q \in { Undef, Str(<< Decimal(1) >>) }, i \in { Undef, Num(7) } }

\* The uploads POST /upload is given: the names multer stored the files
\* under, the instructions field and the metadata field
Uploads ==
  { << st, Str(<< "resize" >>), "valid" >> : st \in SUBSET UploadNames }
    \cup { << UploadNames, Undef, "absent" >>,
           << UploadNames, Str(<< "resize" >>), "invalid" >> }

McpMessage(query, rpc) ==
  /\ running
  /\ last = NoRequest
  /\ LET r == handleMcpMessage(files, World, resState, query, rpc) IN
       /\ files' = r.files
       /\ SetWorld(r.w)
       /\ last' = [op |-> "mcp", query |-> query, rpc |-> rpc,
                   status |-> r.status, body |-> r.body]
  /\ UNCHANGED << inflight, running, now, resState, resId >>

\* DELETE /files/:filename; a route parameter is a non-empty string
RouteNames == { f \in FileArgs : Truthy(f) }

DeleteRoute(filename) ==
  /\ running
  /\ last = NoRequest
  /\ LET r == handleDelete(files, World, resState, filename) IN
       /\ files' = r.files
       /\ SetWorld(r.w)
       /\ last' = [op |-> "delete", filename |-> filename,
                   status |-> r.status, body |-> r.body]
  /\ UNCHANGED << inflight, running, now, resState, resId >>

\* The bodies POST /mcp/tools/call of the first revision is given
ToolsCallBodies ==
  { Call(Str(<< "delete_file" >>), a) :
      a \in { Undef, FileArg(Undef), FileArg(Str(<< >>)),
              FileArg(Str(<< "a.txt" >>)) } }
    \cup { Call(Str(<< "list_files" >>), Undef),
           Call(Str(<< "upload_file" >>), Undef),
           Call(Str(<< "format_disk" >>), Undef),
           Call(Undef, Undef) }

McpToolsCall(body) ==
  /\ running
  /\ last = NoRequest
  /\ LET r == mcpToolsCall_v1(files, World, resState, body) IN
       /\ files' = r.files
       /\ SetWorld(r.w)
       /\ last' = [op |-> "call", request |-> body,
                   status |-> r.status, body |-> r.body]
  /\ UNCHANGED << inflight, running, now, resState, resId >>

\* GET /
GetRoot ==
  /\ running
  /\ last = NoRequest
  /\ LET r == handleRoot(World) IN
       last' = [op |-> "root", status |-> r.status, body |-> r.body]
  /\ sent' = World.sent
  /\ failed' = {}
  /\ UNCHANGED << inflight, running, now, files, sseClients, resState, resId, timer,
                  firstEvent >>

\* POST /upload: multer stores the files under the names stored, then the
\* handler runs.
MulterStore(fsys, stored) == fsys \cup { Append(uploadsDir, n) : n \in stored }

Upload(stored, instructions, metadata) ==
  /\ running
  /\ last = NoRequest
  /\ LET r == handleUpload(MulterStore(files, stored), World, resState, stored,
                           instructions, metadata) IN
       /\ files' = r.files
       /\ SetWorld(r.w)
       /\ last' = [op |-> "upload", stored |-> stored,
                   instructions |-> instructions, metadata |-> metadata,
                   status |-> r.status, body |-> r.body]
  /\ UNCHANGED << inflight, running, now, resState, resId >>

Next ==
  \/ ClockTick
  \/ \E res \in Chans : handleMcpSse(res)
  \/ \E res \in Chans : HeartbeatTick(res)
  \/ \E res \in Chans : onClose(res)
  \/ \E res \in Chans : TransportBreak(res)
  \/ onSigterm
  \/ Settle
  \/ \E r \in McpRequests : McpMessage(r[1], r[2])
  \/ \E filename \in RouteNames : DeleteRoute(filename)
  \/ \E u \in Uploads : Upload(u[1], u[2], u[3])
  \/ \E body \in ToolsCallBodies : McpToolsCall(body)
  \/ GetRoot

Spec == Init /\ [][Next]_vars

\* A live setInterval timer whose period has elapsed gets its callback run:
\* the event loop runs the due timers on every iteration.
SpecLive == Spec /\ \A res \in Chans : WF_vars(HeartbeatTick(res))

\* ------------------------------------------------------------------------
\* The entry listFiles builds for one file: stats.size and
\* formatFileSize(stats.size). The size is whatever fs.statSync reports
\* for an entry of the uploads directory.
\* ------------------------------------------------------------------------
InitSizes ==
  /\ running = TRUE
  /\ now = 1
  /\ files = { serverJs, Append(uploadsDir, "a.txt") }
  /\ sseClients = << >>
  /\ resState = [c \in Chans |-> "unopened"]
  /\ resId = [c \in Chans |-> 0]
  /\ timer = [c \in Chans |-> FALSE]
  /\ sent = [c \in Chans |-> << >>]
  /\ firstEvent = [c \in Chans |-> NoEvent]
  /\ failed = {}
  /\ \E bytes \in SizeValues : last = [op |-> "stat", size |-> bytes]
  /\ inflight = [r \in Racers |-> Idle]

fileDetails ==
  /\ last.op = "stat"
  /\ last' = [op |-> "details", name |-> "a.txt", size |-> last.size,
              sizeFormatted |-> formatFileSize(last.size)]
  /\ UNCHANGED << inflight, running, now, files, sseClients, resState, resId, timer,
                  sent, firstEvent, failed >>

NextSizes == fileDetails

SpecSizes == InitSizes /\ [][NextSizes]_vars

\* ------------------------------------------------------------------------
\* Requests in flight.  Every request is an event of its own: it is
\* received (its bytes are read and, for POST /mcp, parsed by
\* express.json) in one turn of the event loop, and its handler runs in a
\* later one, so other requests and other events come between the two.
\* The handler itself runs to its end once it starts: deleteFile has no
\* await in its body, so fs.existsSync, fs.unlinkSync and broadcastSSE run
\* in the turn that calls it.
\* ------------------------------------------------------------------------
Doors == { "tool", "route" }
RaceName == Str(<< "a.txt" >>)

\* the response of a handler that ran, with what it wrote to the channels
\* and the channels the registry held when it started
Done(door, existed, ok, message, w) ==
  [phase |-> "done", door |-> door, existed |-> existed, ok |-> ok,
   message |-> message, sent |-> w.sent, failed |-> w.failed,
   registered |-> { sseClients[id].res : id \in DOMAIN sseClients }]

\* a DELETE /files/a.txt or a tools/call of delete_file for a.txt arrives
acceptDelete(r, door) ==
  /\ running
  /\ last = NoRequest
  /\ inflight[r] = Idle
  /\ \A q \in Racers : q < r => inflight[q] # Idle
  /\ inflight' = [inflight EXCEPT ![r] =
                    [phase |-> "accepted", door |-> door,
                     existed |-> ExistsSync(files,
                                            PathJoin(uploadsDir, RaceName.s))]]
  /\ last' = NoRequest
  /\ sent' = World.sent
  /\ failed' = {}
  /\ UNCHANGED << running, now, files, sseClients, resState, resId, timer,
                  firstEvent >>

\* a deleteFile that gives the event loop back between fs.existsSync and
\* fs.unlinkSync: the handler takes two steps, and an unlink of a path
\* that is gone by then throws ENOENT
runDelete_Yields(r) ==
  /\ running
  /\ last = NoRequest
  /\ inflight[r].phase \in { "accepted", "checked" }
  /\ LET req == inflight[r]
         filepath == PathJoin(uploadsDir, RaceName.s)
     IN IF req.phase = "accepted"
        THEN /\ inflight' = [inflight EXCEPT ![r] =
                  IF ExistsSync(files, filepath)
                  THEN [req EXCEPT !.phase = "checked"]
                  ELSE Done(req.door, req.existed, FALSE,
                            Str(<< "File not found" >>), World)]
             /\ files' = files
             /\ SetWorld(World)
        ELSE IF filepath \notin files
        THEN /\ inflight' = [inflight EXCEPT ![r] =
                  Done(req.door, req.existed, FALSE,
                       Str(<< "ENOENT: no such file or directory, unlink" >>),
                       World)]
             /\ files' = files
             /\ SetWorld(World)
        ELSE LET d == handleDelete(files, World, resState, RaceName) IN
             /\ inflight' = [inflight EXCEPT ![r] =
                  Done(req.door, req.existed, TRUE, Undef, d.w)]
             /\ files' = d.files
             /\ SetWorld(d.w)
  /\ last' = NoRequest
  /\ UNCHANGED << running, now, resState, resId >>

\* the handler of a request in flight runs: the route's, or
\* handleMcpMessage for the tools/call
runDelete(r) ==
  /\ running
  /\ last = NoRequest
  /\ inflight[r].phase = "accepted"
  /\ LET req == inflight[r] IN
     IF req.door = "route"
     THEN LET d == handleDelete(files, World, resState, RaceName) IN
          /\ inflight' = [inflight EXCEPT ![r] =
               Done(req.door, req.existed, d.status = 200,
                    IF d.status = 200 THEN Undef ELSE d.body.error, d.w)]
          /\ files' = d.files
          /\ SetWorld(d.w)
     ELSE LET t == handleMcpMessage(files, World, resState, Undef,
                                    Rpc(V2, Num(7), ToolsCall,
                                        Call(Str(<< "delete_file" >>),
                                             FileArg(RaceName))))
              ok == "error" \notin JsonKeys(t.body)
          IN /\ inflight' = [inflight EXCEPT ![r] =
                  Done(req.door, req.existed, ok,
                       IF ok THEN Undef ELSE t.body.error.message, t.w)]
             /\ files' = t.files
             /\ SetWorld(t.w)
  /\ last' = NoRequest
  /\ UNCHANGED << running, now, resState, resId >>

NextRace ==
  \/ ClockTick
  \/ \E res \in Chans : handleMcpSse(res)
  \/ \E res \in Chans : onClose(res)
  \/ \E res \in Chans : TransportBreak(res)
  \/ \E r \in Racers, door \in Doors : acceptDelete(r, door)
  \/ \E r \in Racers : runDelete(r)

SpecRace == Init /\ [][NextRace]_vars

\* ------------------------------------------------------------------------
\* Vocabulary of the properties
\* ------------------------------------------------------------------------
\* the channel was opened and its transport has not closed
IsOpen(c) == resState[c] \in { "open", "broken" }
\* the registry holds an entry for the transport
Registered(c) == \E k \in DOMAIN sseClients : sseClients[k].res = c
\* number of events of a name among those written to c in the last step
Count(c, name) ==
  Cardinality({ i \in 1..Len(sent[c]) : sent[c][i].event = name })

\* the envelope declares the protocol version and a non-empty method
EnvelopeOk(rpc) ==
  /\ rpc # Undef
  /\ rpc.jsonrpc = V2
  /\ rpc.method \notin { Undef, Str(<< >>) }

IsToolCall(name) ==
  /\ last.op = "mcp"
  /\ EnvelopeOk(last.rpc)
  /\ last.rpc.method = ToolsCall
  /\ Field(last.rpc.params, "name") = Str(<< name >>)

\* the last step was a delete_file call that succeeded, through either door
DeleteSucceeded ==
  \/ last.op = "delete" /\ last.status = 200
  \/ IsToolCall("delete_file") /\ last.status = 200
DeletedName ==
  IF last.op = "delete" THEN last.filename
  ELSE ArgField(last.rpc.params.arguments, "filename")

\* ------------------------------------------------------------------------
\* C1
\* ------------------------------------------------------------------------
\* C1: any two channels that are open at the same time were assigned
\* different channel identifiers.
C1_DistinctIds ==
  \A a, b \in Chans :
    (a # b /\ IsOpen(a) /\ IsOpen(b)) => resId[a] # resId[b]

\* ------------------------------------------------------------------------
\* C2
\* ------------------------------------------------------------------------
\* C2: while the process runs, every open channel has its heartbeat timer
\* live and is present in the registry, and every live heartbeat timer
\* belongs to an open channel that is present in the registry.
C2_TimerIffRegistered ==
  running =>
    \A c \in Chans :
      /\ IsOpen(c) => (timer[c] /\ Registered(c))
      /\ timer[c] => (IsOpen(c) /\ Registered(c))

\* ------------------------------------------------------------------------
\* C3
\* ------------------------------------------------------------------------
\* C3: when a write to a channel's transport failed during the step just
\* taken, the channel has been closed: no registry entry, timer cancelled.
C3_FailedWriteCloses ==
  \A c \in failed : ~timer[c] /\ ~Registered(c)

\* ------------------------------------------------------------------------
\* C4
\* ------------------------------------------------------------------------
\* C4: after a delete_file call that succeeded, the file is no longer
\* listed and every channel that is open received exactly one file_deleted
\* event carrying that filename.
CountFileDeleted(c, f) ==
  Cardinality({ i \in 1..Len(sent[c]) :
                  /\ sent[c][i].event = "file_deleted"
                  /\ sent[c][i].data.filename = f })
C4_DeleteNotifiesAll ==
  DeleteSucceeded =>
    /\ PathJoin(uploadsDir, DeletedName.s) \notin files
    /\ \A c \in Chans :
         resState[c] = "open" => CountFileDeleted(c, DeletedName) = 1

\* ------------------------------------------------------------------------
\* C5
\* ------------------------------------------------------------------------
\* C5: a channel that has closed is written no further heartbeat, and each
\* channel is written a heartbeat again and again for as long as it stays
\* open and the process runs.
C5_Heartbeats ==
  /\ [](\A c \in Chans : resState[c] = "closed" => Count(c, "heartbeat") = 0)
  /\ \A c \in Chans :
       []<>(~running \/ resState[c] # "open" \/ Count(c, "heartbeat") = 1)

\* after one channel has closed, another one that is open gets a heartbeat
C5_Witness ==
  \E a, b \in Chans :
    /\ resState[a] = "closed"
    /\ resState[b] = "open"
    /\ Count(b, "heartbeat") = 1

\* ------------------------------------------------------------------------
\* C6
\* ------------------------------------------------------------------------
\* C6: from the step in which its transport reports closure on, a channel
\* has no live timer, no registry entry refers to its transport, and no
\* event of any kind is written to it.
C6_ClosedIsGone ==
  \A c \in Chans :
    resState[c] = "closed" =>
      (~timer[c] /\ ~Registered(c) /\ sent[c] = << >>)

\* a broadcast reaches an open channel after another channel has closed
C6_Witness ==
  /\ last.op \in { "upload", "delete" }
  /\ last.status = 200
  /\ \E a, b \in Chans :
       /\ resState[a] = "closed"
       /\ Len(sent[b]) = 1

\* ------------------------------------------------------------------------
\* C7
\* ------------------------------------------------------------------------
\* the transports, had none of them failed its writes
AllWritable ==
  [c \in Chans |-> IF resState[c] = "broken" THEN "open" ELSE resState[c]]

\* what the handler of request l answers and leaves when every write succeeds
Unfailing(l) ==
  CASE l.op = "mcp" ->
         handleMcpMessage(files, World, AllWritable, l.query, l.rpc)
    [] l.op = "delete" ->
         handleDelete(files, World, AllWritable, l.filename)
    [] l.op = "upload" ->
         handleUpload(MulterStore(files, l.stored), World, AllWritable,
                      l.stored, l.instructions, l.metadata)
    [] l.op = "call" ->
         mcpToolsCall_v1(files, World, AllWritable, l.request)
    [] l.op = "root" ->
         handleRoot(World) @@ [files |-> files, w |-> World]

\* C7: when a write fails while a request is handled, the response has the
\* status and body it has when every write succeeds, storage is left the
\* same, and every channel whose transport did not fail is written the
\* same events.
C7_FailureIsolated ==
  [][(last' # NoRequest /\ failed' # {}) =>
       LET u == Unfailing(last') IN
         /\ last'.status = u.status
         /\ last'.body = u.body
         /\ files' = u.files
         /\ \A c \in Chans : c \notin failed' => sent'[c] = u.w.sent[c]]_vars

\* a request succeeded while one channel's write failed and another
\* channel was written the event
C7_Witness ==
  /\ last # NoRequest
  /\ last.status = 200
  /\ failed # {}
  /\ \E c \in Chans : c \notin failed /\ sent[c] # << >>

\* ------------------------------------------------------------------------
\* C8
\* ------------------------------------------------------------------------
\* C8: the response to a JSON-RPC request carries exactly one of result
\* and error.
C8_ResultXorError ==
  last.op = "mcp" =>
    ("result" \in JsonKeys(last.body)) # ("error" \in JsonKeys(last.body))

\* a tool call failed in the executor and was answered
C8_Witness ==
  /\ IsToolCall("delete_file")
  /\ last.status = 500
  /\ "error" \in JsonKeys(last.body)

\* ------------------------------------------------------------------------
\* C9
\* ------------------------------------------------------------------------
\* C9: the response to a JSON-RPC request carries an id, equal to the id
\* of the request, and null when the request has none.
C9_IdEchoed ==
  last.op = "mcp" =>
    /\ "id" \in JsonKeys(last.body)
    /\ last.body.id = Coalesce(Field(last.rpc, "id"), Null)

\* ------------------------------------------------------------------------
\* C10
\* ------------------------------------------------------------------------
\* C10: a request whose envelope is malformed is answered 400 with error
\* code -32600 and nothing else happens: storage, the registry and the
\* timers are unchanged and nothing is written to any channel.
C10_InvalidRequest ==
  [][(last'.op = "mcp" /\ ~EnvelopeOk(last'.rpc)) =>
       /\ last'.status = 400
       /\ JsonKeys(last'.body) = { "jsonrpc", "id", "error" }
       /\ last'.body.error = RpcError(-32600, Str(<< "Invalid Request" >>))
       /\ files' = files
       /\ sseClients' = sseClients
       /\ timer' = timer
       /\ firstEvent' = firstEvent
       /\ failed' = {}
       /\ \A c \in Chans : sent'[c] = << >>]_vars

\* a delete_file call on a stored file, with the wrong protocol tag, sent
\* for a registered channel, was refused
C10_Witness ==
  /\ last.op = "mcp"
  /\ last.rpc # Undef
  /\ last.rpc.jsonrpc # V2
  /\ last.rpc.method = ToolsCall
  /\ last.status = 400
  /\ Append(uploadsDir, "a.txt") \in files
  /\ \E k \in DOMAIN sseClients : last.query = Str(<< Decimal(k) >>)

\* ------------------------------------------------------------------------
\* C11
\* ------------------------------------------------------------------------
\* the request l is a tools/call with a valid envelope and a tool name
NamedToolCall(l) ==
  /\ l.op = "mcp"
  /\ EnvelopeOk(l.rpc)
  /\ l.rpc.method = ToolsCall
  /\ Truthy(Field(l.rpc.params, "name"))

\* a message that is a non-empty string
IsMessage(m) == m.t = "string" /\ m.s # << >>

\* C11: when the tool executor raises an error during a tools/call, the
\* request is answered with an error object whose message is a non-empty
\* string and, for a JSON-RPC request, with the id of the request (null
\* when it has none) and no result; the process keeps running, and a
\* running server always answers the next request.
C11_ExecutorErrorsAnswered ==
  /\ [][/\ (NamedToolCall(last')
            /\ executeTool(files, World, resState, last'.rpc.params.name,
                           last'.rpc.params.arguments).threw) =>
             /\ last'.status = 500
             /\ JsonKeys(last'.body) = { "jsonrpc", "id", "error" }
             /\ IsMessage(last'.body.error.message)
             /\ last'.body.id = Coalesce(last'.rpc.id, Null)
             /\ running'
        /\ (last'.op = "call"
            /\ toolsCallSwitch_v1(files, World, resState, last'.request.name,
                                  last'.request.arguments).threw) =>
             /\ last'.status = 500
             /\ DOMAIN last'.body = { "error" }
             /\ IsMessage(last'.body.error.message)
             /\ running']_vars
  /\ [](running =>
         \/ ENABLED Settle
         \/ ENABLED McpMessage(Undef, Rpc(V2, Num(7), Str(<< "initialize" >>),
                                          Undef)))

\* a delete_file call hit a storage access error and was answered with the
\* id of the request
C11_Witness ==
  /\ NamedToolCall(last)
  /\ last.status = 500
  /\ last.body.id = Num(7)
  /\ last.body.error.message
       = Str(<< "EISDIR: illegal operation on a directory, unlink" >>)

\* ------------------------------------------------------------------------
\* C12
\* ------------------------------------------------------------------------
\* the request l is a delete_file call, through any of the doors
IsDeleteCall(l) ==
  \/ l.op = "delete"
  \/ NamedToolCall(l) /\ l.rpc.params.name = Str(<< "delete_file" >>)
  \/ l.op = "call" /\ l.request.name = Str(<< "delete_file" >>)

\* its filename argument, undefined when it has none
DeleteCallName(l) ==
  CASE l.op = "delete" -> l.filename
    [] l.op = "mcp" -> ArgField(l.rpc.params.arguments, "filename")
    [] l.op = "call" -> ArgField(l.request.arguments, "filename")

\* the error message of the answer to l, undefined when it reports none
ErrorMessage(l) ==
  CASE l.op = "delete" -> IF "error" \in DOMAIN l.body THEN l.body.error ELSE Undef
    [] OTHER -> IF "error" \in DOMAIN l.body /\ l.body.error # Undef
                THEN l.body.error.message ELSE Undef

\* the name f denotes an entry of the uploads directory of fsys
InStorage(fsys, f) ==
  /\ PathJoin(uploadsDir, f.s) \in fsys
  /\ Len(PathJoin(uploadsDir, f.s)) = Len(uploadsDir) + 1
  /\ SubSeq(PathJoin(uploadsDir, f.s), 1, Len(uploadsDir)) = uploadsDir

\* number of events of a name in a sequence of events
EventsNamed(evs, name) ==
  Cardinality({ i \in 1..Len(evs) : evs[i].event = name })

\* C12: a delete_file call that names a file which is not in storage is
\* answered with the error "File not found", leaves the files as they
\* were and writes no file_deleted event to any channel.
C12_MissingFileRefused ==
  [][(/\ IsDeleteCall(last')
      /\ IsMessage(DeleteCallName(last'))
      /\ ~InStorage(files, DeleteCallName(last'))) =>
       /\ ErrorMessage(last') = Str(<< "File not found" >>)
       /\ files' = files
       /\ \A c \in Chans : EventsNamed(sent'[c], "file_deleted") = 0]_vars

\* ------------------------------------------------------------------------
\* C13
\* ------------------------------------------------------------------------
ToolNames == { Str(<< TOOLS[i] >>) : i \in DOMAIN TOOLS }

\* the name of the tool the request l calls, undefined when it calls none
CalledTool(l) ==
  CASE NamedToolCall(l) -> l.rpc.params.name
    [] l.op = "call" -> l.request.name
    [] OTHER -> Undef

\* C13: a tools/call naming a tool that is not registered is answered with
\* the error "Unknown tool: " followed by the name; the files, the
\* registry and the timers stay as they were and no event is written.
C13_UnknownTool ==
  [][(IsMessage(CalledTool(last')) /\ CalledTool(last') \notin ToolNames) =>
       /\ ErrorMessage(last')
            = Str(<< "Unknown tool: " >> \o CalledTool(last').s)
       /\ "result" \notin JsonKeys(last'.body)
       /\ files' = files
       /\ sseClients' = sseClients
       /\ timer' = timer
       /\ failed' = {}
       /\ \A c \in Chans : sent'[c] = << >>]_vars

\* an unregistered tool was called while a channel was registered and a
\* file was stored
C13_Witness ==
  /\ NamedToolCall(last)
  /\ CalledTool(last) = Str(<< "format_disk" >>)
  /\ last.status = 500
  /\ DOMAIN sseClients # {}
  /\ Append(uploadsDir, "a.txt") \in files

\* ------------------------------------------------------------------------
\* C14
\* ------------------------------------------------------------------------
\* C14: a delete_file call whose filename argument is missing or empty, or
\* which has no arguments object, is answered with the error "filename is
\* required", leaves the files as they were and writes no event.
C14_FilenameRequired ==
  [][(IsDeleteCall(last') /\ ~IsMessage(DeleteCallName(last'))) =>
       /\ ErrorMessage(last') = Str(<< "filename is required" >>)
       /\ files' = files
       /\ \A c \in Chans : sent'[c] = << >>]_vars

\* ------------------------------------------------------------------------
\* C15
\* ------------------------------------------------------------------------
\* the channel identifiers the clientId query parameter names
ChannelOf(query) == { k \in Times : query = Str(<< Decimal(k) >>) }

\* the request l is a tools/call that was answered with a result
ToolSucceeded(l) == NamedToolCall(l) /\ "result" \in JsonKeys(l.body)

\* C15: a tools/call that succeeds writes one tool_result event to a
\* channel exactly when the request supplied the identifier of that
\* channel and the identifier is in the registry; every other channel is
\* written none, and the response is the one the request gets without a
\* channel identifier.
C15_ToolResultToCaller ==
  [][ToolSucceeded(last') =>
       /\ \A c \in Chans :
            LET n == EventsNamed(sent'[c], "tool_result")
                addressed == /\ ChannelOf(last'.query) = { resId[c] }
                             /\ resId[c] \in DOMAIN sseClients
            IN /\ (resState[c] = "open" /\ addressed) => n = 1
               /\ ~addressed => n = 0
               /\ n <= 1
       /\ last'.body
            = handleMcpMessage(files, World, resState, Undef, last'.rpc).body
       /\ last'.status = 200]_vars

\* ------------------------------------------------------------------------
\* C16
\* ------------------------------------------------------------------------
\* C16: after a POST /upload that succeeded, every channel that is open
\* has been written exactly one upload event, whose file list (original
\* name, stored name, size, media type) and instructions are those of the
\* response to the uploader.
C16_UploadNotifiesAll ==
  (last.op = "upload" /\ last.status = 200) =>
    \A c \in Chans :
      resState[c] = "open" =>
        /\ EventsNamed(sent[c], "upload") = 1
        /\ \A i \in 1..Len(sent[c]) :
             sent[c][i].event = "upload" =>
               /\ sent[c][i].data.files = last.body.files
               /\ sent[c][i].data.instructions = last.body.instructions

\* ------------------------------------------------------------------------
\* C17
\* ------------------------------------------------------------------------
\* C17: the first event written to a channel is its connected event,
\* carrying the identifier the channel was assigned; nothing is written
\* to a transport before its channel is opened.
C17_ConnectedFirst ==
  \A c \in Chans :
    IF resState[c] = "unopened"
    THEN firstEvent[c] = NoEvent /\ sent[c] = << >>
    ELSE firstEvent[c] = Event("connected", [clientId |-> resId[c]])

\* every transport has been opened and a channel is written a tool_result
C17_Witness ==
  /\ \A c \in Chans : firstEvent[c] # NoEvent
  /\ \E c \in Chans : EventsNamed(sent[c], "tool_result") = 1
  /\ resId[1] # resId[2]

\* ------------------------------------------------------------------------
\* C18
\* ------------------------------------------------------------------------
\* C18: when the close step of a channel has run, running it once more
\* for the same channel leaves the registry and every timer as the first
\* run left them.
C18_CloseIdempotent ==
  [][\A c \in Chans :
       (IsOpen(c) /\ resState'[c] = "closed") =>
         LET after == [World EXCEPT !.sseClients = sseClients',
                                    !.timer = timer']
             again == closeChannel(after, resId[c], c)
         IN /\ again.sseClients = sseClients'
            /\ again.timer = timer']_vars

\* a channel has closed while a channel with another identifier is
\* registered with a live timer
C18_Witness ==
  \E a, b \in Chans :
    /\ resState[a] = "closed"
    /\ Registered(b)
    /\ timer[b]
    /\ resId[a] # resId[b]
    /\ last = NoRequest

\* ------------------------------------------------------------------------
\* C19
\* ------------------------------------------------------------------------
\* C19: once the process has exited on SIGTERM, no channel is left with a
\* live heartbeat timer or with a transport that was not ended.
C19_ShutdownClosesAll ==
  ~running => \A c \in Chans : ~timer[c] /\ ~IsOpen(c)

\* ------------------------------------------------------------------------
\* C20
\* ------------------------------------------------------------------------
\* C20: the activeConnections that GET / reports is the number of channels
\* that were opened and whose transport has not closed.
C20_ActiveConnections ==
  last.op = "root" =>
    last.body.activeConnections = Cardinality({ c \in Chans : IsOpen(c) })

\* ------------------------------------------------------------------------
\* C21
\* ------------------------------------------------------------------------
\* the request l has a valid envelope and the method tools/call, and its
\* params carry no tool name
UnnamedToolCall(l) ==
  /\ l.op = "mcp"
  /\ EnvelopeOk(l.rpc)
  /\ l.rpc.method = ToolsCall
  /\ Field(l.rpc.params, "name") \in { Undef, Null, Str(<< >>) }

\* the request l has a valid envelope and a method the server does not know
UnknownMethod(l) ==
  /\ l.op = "mcp"
  /\ EnvelopeOk(l.rpc)
  /\ l.rpc.method \notin { Str(<< "initialize" >>), Str(<< "tools/list" >>),
                           ToolsCall }

\* C21: a tools/call without a tool name is answered with error code
\* -32602 and not with an error of the tool executor; a method other than
\* initialize, tools/list and tools/call is answered with error code
\* -32601; in both cases the answer has no result, and the files, the
\* registry, the timers and the channels are left as they were.
C21_Routing ==
  [][(UnnamedToolCall(last') \/ UnknownMethod(last')) =>
       /\ "error" \in JsonKeys(last'.body)
       /\ "result" \notin JsonKeys(last'.body)
       /\ last'.body.error.code
            = (IF UnnamedToolCall(last') THEN -32602 ELSE -32601)
       /\ files' = files
       /\ sseClients' = sseClients
       /\ timer' = timer
       /\ firstEvent' = firstEvent
       /\ failed' = {}
       /\ \A c \in Chans : sent'[c] = << >>]_vars

\* a tools/call without a tool name, with a filename argument naming a
\* stored file, was refused while a channel was registered
C21_Witness ==
  /\ UnnamedToolCall(last)
  /\ last.body.error.code = -32602
  /\ ArgField(Field(last.rpc.params, "arguments"), "filename")
       = Str(<< "a.txt" >>)
  /\ Append(uploadsDir, "a.txt") \in files
  /\ DOMAIN sseClients # {}

\* ------------------------------------------------------------------------
\* C22
\* ------------------------------------------------------------------------
\* the request l has a valid envelope and the method m
IsMethodCall(l, m) ==
  /\ l.op = "mcp"
  /\ EnvelopeOk(l.rpc)
  /\ l.rpc.method = Str(<< m >>)

\* C22: an initialize or tools/list call, in whatever state it is made,
\* leaves the files, the registry, the timers and every channel as they
\* were and writes no event; initialize returns the fixed protocol version
\* and server identity, and tools/list returns the catalog of exactly
\* upload_file, list_files and delete_file.
C22_ReadOnlyMethods ==
  [][(IsMethodCall(last', "initialize") \/ IsMethodCall(last', "tools/list")) =>
       /\ last'.status = 200
       /\ "error" \notin JsonKeys(last'.body)
       /\ IsMethodCall(last', "tools/list") =>
            last'.body.result
              = [tools |-> << "upload_file", "list_files", "delete_file" >>]
       /\ IsMethodCall(last', "initialize") =>
            last'.body.result
              = [protocolVersion |-> "2024-11-05",
                 serverInfo |-> [name |-> "origin-brain-trainer",
                                 version |-> "1.0.0"]]
       /\ files' = files
       /\ sseClients' = sseClients
       /\ timer' = timer
       /\ resState' = resState
       /\ firstEvent' = firstEvent
       /\ failed' = {}
       /\ \A c \in Chans : sent'[c] = << >>]_vars

\* tools/list was answered after one channel had closed, while another was
\* registered and a file was stored
C22_Witness ==
  /\ IsMethodCall(last, "tools/list")
  /\ last.rpc.id = Undef
  /\ \E a, b \in Chans : resState[a] = "closed" /\ Registered(b)
  /\ Append(uploadsDir, "a.txt") \in files

\* ------------------------------------------------------------------------
\* C23
\* ------------------------------------------------------------------------
IsFileDeleted(e) == e.event = "file_deleted"

\* the tools/call of delete_file with the filename f
DeleteFileCall(f) ==
  Rpc(V2, Num(7), ToolsCall, Call(Str(<< "delete_file" >>), FileArg(f)))

\* C23: DELETE /files/{name} and a tools/call of delete_file with the same
\* filename, made in the same state, leave the same files, write the same
\* file_deleted events to the same channels, and report an error in the
\* same cases with the same message, the route with status 404.
C23_RouteEqualsTool ==
  [][/\ (last'.op = "delete") =>
          LET t == handleMcpMessage(files, World, resState, Undef,
                                    DeleteFileCall(last'.filename))
          IN /\ files' = t.files
             /\ \A c \in Chans :
                  SelectSeq(sent'[c], IsFileDeleted)
                    = SelectSeq(t.w.sent[c], IsFileDeleted)
             /\ (last'.status # 200) = ("error" \in JsonKeys(t.body))
             /\ (last'.status # 200) =>
                  (/\ last'.status = 404
                   /\ last'.body.error = t.body.error.message)
     /\ (/\ NamedToolCall(last')
         /\ last'.rpc.params.name = Str(<< "delete_file" >>)
         /\ IsMessage(DeleteCallName(last'))) =>
          LET d == handleDelete(files, World, resState, DeleteCallName(last'))
          IN /\ files' = d.files
             /\ \A c \in Chans :
                  SelectSeq(sent'[c], IsFileDeleted)
                    = SelectSeq(d.w.sent[c], IsFileDeleted)
             /\ ("error" \in JsonKeys(last'.body)) = (d.status # 200)
             /\ (d.status # 200) =>
                  last'.body.error.message = d.body.error]_vars

\* the route deleted a stored file and a registered channel was told
C23_Witness ==
  /\ last.op = "delete"
  /\ last.status = 200
  /\ last.filename = Str(<< "a.txt" >>)
  /\ \E c \in Chans : EventsNamed(sent[c], "file_deleted") = 1

\* ------------------------------------------------------------------------
\* C24
\* ------------------------------------------------------------------------
Units == { "Bytes", "KB", "MB", "GB" }

\* the digits of 1000 and of 2097152 = 2 * 1024^2
Size1000 == << 1000, 0, 0, 0, 0 >>
Size2MiB == << 0, 0, 2, 0, 0 >>
SizeZero == << 0, 0, 0, 0, 0 >>

\* the size divided by the largest power of 1024 not exceeding it, rounded
\* to two decimals, as a numeral
Quotient(bytes) == numberToString(roundedHundredths(bytes, floorLogK(bytes)))

\* C24: the sizeFormatted of every size is the size divided by the largest
\* power of 1024 not exceeding it, rounded to two decimals, followed by a
\* unit that is one of Bytes, KB, MB, GB; 0 gives "0 Bytes", 1000 gives
\* "1000 Bytes" and 2097152 gives "2 MB".
C24_SizeFormatted ==
  (last.op = "details") =>
    /\ (last.size = SizeZero) => last.sizeFormatted = "0 Bytes"
    /\ (last.size = Size1000) => last.sizeFormatted = "1000 Bytes"
    /\ (last.size = Size2MiB) => last.sizeFormatted = "2 MB"
    /\ (last.size # SizeZero) =>
         \E u \in Units :
           last.sizeFormatted = Quotient(last.size) \o " " \o u

\* the same for the sizes below 1024^4 bytes
C24_BelowOneTiB ==
  (last.op = "details" /\ last.size[5] = 0) => C24_SizeFormatted

\* a size of 1024^4 bytes was formatted
C24_Witness ==
  /\ last.op = "details"
  /\ last.size = << 0, 0, 0, 0, 1 >>
  /\ last.sizeFormatted = "1 undefined"

\* ------------------------------------------------------------------------
\* C25
\* ------------------------------------------------------------------------
\* C25: when the transport of a channel closes, the registry entry of every
\* other channel that is still open stays as it was, under the same key, so
\* that channel goes on receiving the broadcasts.
C25_CloseKeepsOthers ==
  [][\A c \in Chans :
       (IsOpen(c) /\ resState'[c] = "closed") =>
         \A d \in Chans \ {c} : \A id \in DOMAIN sseClients :
           (IsOpen(d) /\ sseClients[id].res = d) =>
             /\ id \in DOMAIN sseClients'
             /\ sseClients'[id] = sseClients[id]]_vars

\* a channel closed while another open channel was registered
C25_Witness ==
  \E c, d \in Chans :
    /\ c # d
    /\ resState[c] = "closed"
    /\ IsOpen(d)
    /\ Registered(d)

\* ------------------------------------------------------------------------
\* C26
\* ------------------------------------------------------------------------
\* both requests were received while the file existed and both handlers ran
RaceOver ==
  \A r \in Racers : inflight[r].phase = "done" /\ inflight[r].existed

\* the file_deleted events the handler of request r wrote to channel c
Deleted(r, c) == EventsNamed(inflight[r].sent[c], "file_deleted")

\* C26: of two delete requests for the same existing file that are in
\* flight together, through either door, exactly one succeeds and the
\* other reports "File not found"; the one that succeeds sends one
\* file_deleted event on every channel the registry holds (written, or
\* refused by a transport that fails its writes), and the other sends none.
C26_DeleteRace ==
  RaceOver =>
    \E won \in Racers : \A lost \in Racers \ {won} :
      /\ inflight[won].ok
      /\ ~inflight[lost].ok
      /\ inflight[lost].message = Str(<< "File not found" >>)
      /\ \A c \in Chans :
           /\ Deleted(lost, c) = 0
           /\ c \notin inflight[lost].failed
           /\ Deleted(won, c) + (IF c \in inflight[won].failed THEN 1 ELSE 0)
                = (IF c \in inflight[won].registered THEN 1 ELSE 0)
      /\ Append(uploadsDir, "a.txt") \notin files

\* the race was run through both doors with the tool call received first
\* and the route handled first, while a channel was registered
C26_Witness ==
  /\ RaceOver
  /\ inflight[1].door = "tool"
  /\ inflight[2].door = "route"
  /\ inflight[2].ok
  /\ \E c \in Chans : Deleted(2, c) = 1

\* ------------------------------------------------------------------------
\* C27
\* ------------------------------------------------------------------------
\* the path is an entry of the uploads directory
InUploads(path) ==
  /\ Len(path) = Len(uploadsDir) + 1
  /\ SubSeq(path, 1, Len(uploadsDir)) = uploadsDir

\* C27: a delete_file call, through either door and whatever its filename,
\* removes at most one file, and only an entry of the uploads directory: a
\* file outside the uploads directory is never removed.
C27_DeleteStaysInUploads ==
  [][IsDeleteCall(last') =>
       /\ Cardinality(files \ files') <= 1
       /\ \A path \in files \ files' : InUploads(path)]_vars

\* a delete_file call with a parent-directory segment in its filename
\* succeeded
C27_Witness ==
  /\ IsDeleteCall(last)
  /\ DeleteCallName(last) = Str(<< "..", "server.js" >>)
  /\ ErrorMessage(last) = Undef
  /\ serverJs \notin files

====
